---- MODULE Spec2Model ----
(***************************************************************************)
(* Relationship management of the recipe API: RecipeSerializer.create and  *)
(* RecipeSerializer.update (app/recipe/serializers.py) acting on the       *)
(* Recipe, Tag and Ingredient tables and the two many-to-many link tables, *)
(* together with the owner-scoped list and delete operations of the views. *)
(***************************************************************************)
EXTENDS Integers, Sequences, FiniteSets, TLC

\* ------------------------------------------------------------------------
\* Bounds of the model and the small input domains.
\* ------------------------------------------------------------------------
MaxOps == 3        \* requests per run
MaxLen == 2        \* descriptors per payload, over both relations
MaxIds == 2        \* ids per list request, over both filters

Users == {"u1", "u2"}
TagNames == {"Breakfast", "Lunch"}
IngredientNames == {"Salt", "Pepper"}
Titles == {"Curry", "Toast"}
CreateTitles == {"Curry"}

\* A dictionary key that may be missing: <<>> is "absent", <<v>> is "present
\* with value v".
Opt(S) == {<<>>} \cup {<<x>> : x \in S}

Range(s) == {s[i] : i \in DOMAIN s}

SeqsUpTo(S, n) == UNION {[1..k -> S] : k \in 0..n}

\* Validated nested descriptors: a sequence of {'name': N} dictionaries.
TagDescriptors == SeqsUpTo([name : TagNames], MaxLen)
IngredientDescriptors == SeqsUpTo([name : IngredientNames], MaxLen)

DescNames(descs) == {descs[i].name : i \in DOMAIN descs}

\* The number of descriptors a payload carries, over both relation fields.
Descriptors(p) ==
    (IF p.tags = <<>> THEN 0 ELSE Len(p.tags[1]))
    + (IF p.ingredients = <<>> THEN 0 ELSE Len(p.ingredients[1]))

\* Request payloads of PATCH: every key may be missing, and a client may send
\* a 'user' key.
Payloads ==
    {p \in [title : Opt(Titles), tags : Opt(TagDescriptors),
            ingredients : Opt(IngredientDescriptors), user : Opt(Users)] :
        Descriptors(p) <= MaxLen}

\* Request payloads of POST: title is a required field. (A 'user' key would
\* be dropped by validation and overridden by the view's user=request.user.)
CreatePayloads ==
    {p \in Payloads : p.title # <<>> /\ p.title[1] \in CreateTitles /\ p.user = <<>>}

VARIABLES
    recipes,             \* Recipe rows: [id, user, title], and price where
                         \* the payloads carry one
    tags,                \* Tag rows: [id, user, name]
    ingredients,         \* Ingredient rows: [id, user, name]
    recipe_tags,         \* link rows <<recipe id, tag id>>
    recipe_ingredients,  \* link rows <<recipe id, ingredient id>>
    nextRecipe,          \* auto-increment primary keys
    nextTag,
    nextIngredient,
    ops,                 \* number of requests served so far
    last,                \* the request served last, with its response
    solo,                \* the tables of a run that serves one user alone
    inflight             \* the requests being served step by step

vars == <<recipes, tags, ingredients, recipe_tags, recipe_ingredients,
          nextRecipe, nextTag, nextIngredient, ops, last, solo, inflight>>

store == <<recipes, tags, ingredients, recipe_tags, recipe_ingredients,
           nextRecipe, nextTag, nextIngredient>>

\* ------------------------------------------------------------------------
\* Serializer fields.
\* ------------------------------------------------------------------------
\* RecipeSerializer.Meta.fields minus read_only_fields, restricted to the keys
\* the payloads of this model carry: 'user' is not a serializer field.
WritableFields == {"title", "price", "tags", "ingredients"}

\* Variant: validation that lets every key of the payload through.
to_internal_value_keeps_all(payload) == payload

\* ModelSerializer validation keeps only the declared writable fields.
to_internal_value(payload) ==
    [k \in DOMAIN payload |->
        IF k \in WritableFields THEN payload[k] ELSE <<>>]

\* dict.pop(key, default) as used on validated_data: the value, or default.
pop(d, k, default) == IF d[k] # <<>> THEN d[k][1] ELSE default

\* ------------------------------------------------------------------------
\* Tag.objects.get_or_create(user=..., name=...)  /  Ingredient likewise.
\* ------------------------------------------------------------------------
\* Variant: the lookup forgets the user= keyword.
Matching_any_user(rows, user, name) == {t \in rows : t.name = name}

Matching(rows, user, name) == {t \in rows : t.user = user /\ t.name = name}

\* Variant: objects.create in place of get_or_create.
get_or_create_always_insert(rows, next, user, name) ==
    [obj |-> next,
     rows |-> rows \cup {[id |-> next, user |-> user, name |-> name]},
     next |-> next + 1, ok |-> TRUE]

\* Variant: the row is looked up by name alone and created for the user.
get_or_create_by_name(rows, next, user, name) ==
    IF \E t \in rows : t.name = name
    THEN [obj |-> (CHOOSE t \in rows : t.name = name).id, rows |-> rows,
          next |-> next, ok |-> TRUE]
    ELSE [obj |-> next,
          rows |-> rows \cup {[id |-> next, user |-> user, name |-> name]},
          next |-> next + 1, ok |-> TRUE]

\* Returns the object's id, the table and the next primary key; ok = FALSE is
\* MultipleObjectsReturned.
get_or_create(rows, next, user, name) ==
    LET m == Matching(rows, user, name) IN
    IF m = {}
    THEN [obj |-> next,
          rows |-> rows \cup {[id |-> next, user |-> user, name |-> name]},
          next |-> next + 1, ok |-> TRUE]
    ELSE IF Cardinality(m) = 1
    THEN [obj |-> (CHOOSE t \in m : TRUE).id, rows |-> rows, next |-> next,
          ok |-> TRUE]
    ELSE [obj |-> 0, rows |-> rows, next |-> next, ok |-> FALSE]

\* Variant: the object is resolved and never linked.
add_nothing(links, instance, obj) == links

\* instance.tags.add(tag_obj): one more link row (a set: adding twice is one row).
add(links, instance, obj) == links \cup {<<instance.id, obj>>}

\* st = [rows, next, links, ok]: the table, its next key, the link table and
\* whether no exception has been raised so far.
RECURSIVE get_or_create_tags(_, _, _)
get_or_create_tags(descs, instance, st) ==
    IF descs = <<>> \/ ~st.ok THEN st
    ELSE LET step(r) ==
                IF ~r.ok THEN [st EXCEPT !.ok = FALSE]
                ELSE get_or_create_tags(Tail(descs), instance,
                        [rows |-> r.rows, next |-> r.next,
                         links |-> add(st.links, instance, r.obj),
                         ok |-> TRUE])
         IN step(get_or_create(st.rows, st.next, instance.user,
                               Head(descs).name))

RECURSIVE get_or_create_ingredients(_, _, _)
get_or_create_ingredients(descs, instance, st) ==
    IF descs = <<>> \/ ~st.ok THEN st
    ELSE LET step(r) ==
                IF ~r.ok THEN [st EXCEPT !.ok = FALSE]
                ELSE get_or_create_ingredients(Tail(descs), instance,
                        [rows |-> r.rows, next |-> r.next,
                         links |-> add(st.links, instance, r.obj),
                         ok |-> TRUE])
         IN step(get_or_create(st.rows, st.next, instance.user,
                               Head(descs).name))

\* Variant: update without the clear() call.
clear_nothing(links, instance) == links

\* instance.tags.clear() / instance.ingredients.clear(): drops the link rows
\* of the recipe, never a Tag or Ingredient row.
clear(links, instance) == {l \in links : l[1] # instance.id}

TagsOf(rid) == {l[2] : l \in {x \in recipe_tags : x[1] = rid}}
IngredientsOf(rid) == {l[2] : l \in {x \in recipe_ingredients : x[1] = rid}}

RecipeById(rid) == CHOOSE r \in recipes : r.id = rid

\* ------------------------------------------------------------------------
\* Initial state: empty tables, no request served.
\* ------------------------------------------------------------------------
NoRequest == [op |-> "none"]

\* Empty tables with fresh primary-key sequences.
EmptyStore ==
    [recipes |-> {}, tags |-> {}, ingredients |-> {}, recipe_tags |-> {},
     recipe_ingredients |-> {}, nextRecipe |-> 1, nextTag |-> 1,
     nextIngredient |-> 1]

Init ==
    /\ recipes = {}
    /\ tags = {}
    /\ ingredients = {}
    /\ recipe_tags = {}
    /\ recipe_ingredients = {}
    /\ nextRecipe = 1
    /\ nextTag = 1
    /\ nextIngredient = 1
    /\ ops = 0
    /\ last = NoRequest
    /\ solo = EmptyStore
    /\ inflight = <<>>

\* ------------------------------------------------------------------------
\* RecipeSerializer.create(validated_data), with user=u put into
\* validated_data by the view's serializer.save(user=request.user).
\* ------------------------------------------------------------------------
\* Recipe.objects.create(**validated_data), once the relation fields are
\* popped: a row with the next id, the user the view passes and every
\* scalar field of validated_data.
new_recipe(id, u, validated_data) ==
    [k \in {"id", "user"}
             \cup (DOMAIN validated_data \ {"tags", "ingredients"}) |->
        IF k = "id" THEN id
        ELSE IF k = "user" THEN u
        ELSE validated_data[k][1]]

create(u, payload) ==
    LET validated_data == to_internal_value(payload)
        recipe == new_recipe(nextRecipe, u, validated_data)
    IN \E t \in {get_or_create_tags(pop(validated_data, "tags", <<>>), recipe,
                    [rows |-> tags, next |-> nextTag, links |-> recipe_tags,
                     ok |-> TRUE])} :
       \E i \in {IF t.ok
                 THEN get_or_create_ingredients(
                        pop(validated_data, "ingredients", <<>>), recipe,
                        [rows |-> ingredients, next |-> nextIngredient,
                         links |-> recipe_ingredients, ok |-> TRUE])
                 ELSE [rows |-> ingredients, next |-> nextIngredient,
                       links |-> recipe_ingredients, ok |-> FALSE]} :
        /\ recipes' = recipes \cup {recipe}
        /\ nextRecipe' = nextRecipe + 1
        /\ tags' = t.rows
        /\ nextTag' = t.next
        /\ recipe_tags' = t.links
        /\ ingredients' = i.rows
        /\ nextIngredient' = i.next
        /\ recipe_ingredients' = i.links
        /\ ops' = ops + 1

\* ------------------------------------------------------------------------
\* RecipeSerializer.update(instance, validated_data).
\* ------------------------------------------------------------------------
\* Python's None: what validated_data.pop(key, None) yields for a missing key.
None == <<>>

\* Variant: pop('tags', []) as in create, so a missing key clears the tags.
update_tags_default_empty(instance, tgs) ==
    get_or_create_tags(IF tgs # None THEN tgs[1] ELSE <<>>, instance,
        [rows |-> tags, next |-> nextTag,
         links |-> clear(recipe_tags, instance), ok |-> TRUE])

\* Variant: instance.tags.all().delete() in place of instance.tags.clear().
update_tags_delete_old(instance, tgs) ==
    IF tgs # None
    THEN get_or_create_tags(tgs[1], instance,
            [rows |-> {t \in tags : <<instance.id, t.id>> \notin recipe_tags},
             next |-> nextTag,
             links |-> clear(recipe_tags, instance), ok |-> TRUE])
    ELSE [rows |-> tags, next |-> nextTag, links |-> recipe_tags, ok |-> TRUE]

\* tags = validated_data.pop('tags', None); if tags is not None: clear, then
\* get or create. The result is [rows, next, links, ok] of the Tag table.
update_tags(instance, tgs) ==
    IF tgs # None
    THEN get_or_create_tags(tgs[1], instance,
            [rows |-> tags, next |-> nextTag,
             links |-> clear(recipe_tags, instance), ok |-> TRUE])
    ELSE [rows |-> tags, next |-> nextTag, links |-> recipe_tags, ok |-> TRUE]

update_ingredients(instance, ings) ==
    IF ings # None
    THEN get_or_create_ingredients(ings[1], instance,
            [rows |-> ingredients, next |-> nextIngredient,
             links |-> clear(recipe_ingredients, instance), ok |-> TRUE])
    ELSE [rows |-> ingredients, next |-> nextIngredient,
          links |-> recipe_ingredients, ok |-> TRUE]

\* for key, value in validated_data.items(): setattr(instance, key, value),
\* then instance.save(): the row with every remaining key assigned.
save(instance, validated_data) ==
    [k \in DOMAIN instance |->
        IF k \in DOMAIN validated_data /\ validated_data[k] # None
        THEN validated_data[k][1] ELSE instance[k]]

update(instance, payload) ==
    LET validated_data == to_internal_value(payload) IN
    \E t \in {update_tags(instance, validated_data.tags)} :
    \E i \in {IF t.ok
              THEN update_ingredients(instance, validated_data.ingredients)
              ELSE [rows |-> ingredients, next |-> nextIngredient,
                    links |-> recipe_ingredients, ok |-> FALSE]} :
        /\ tags' = t.rows
        /\ nextTag' = t.next
        /\ recipe_tags' = t.links
        /\ ingredients' = i.rows
        /\ nextIngredient' = i.next
        /\ recipe_ingredients' = i.links
        /\ recipes' =
            IF i.ok
            THEN (recipes \ {instance}) \cup
                 {save(instance, [validated_data EXCEPT
                                    !.tags = None, !.ingredients = None])}
            ELSE recipes
        /\ nextRecipe' = nextRecipe
        /\ ops' = ops + 1

\* ------------------------------------------------------------------------
\* DELETE /recipes/<id>/: the recipe row and its link rows go, Tag and
\* Ingredient rows stay.
\* ------------------------------------------------------------------------
delete(instance) ==
    /\ recipes' = recipes \ {instance}
    /\ recipe_tags' = clear(recipe_tags, instance)
    /\ recipe_ingredients' = clear(recipe_ingredients, instance)
    /\ UNCHANGED <<tags, ingredients, nextRecipe, nextTag, nextIngredient>>
    /\ ops' = ops + 1

\* ------------------------------------------------------------------------
\* The write requests of the recipe endpoints. The detail endpoints look the
\* recipe up among the recipes of the authenticated user.
\* ------------------------------------------------------------------------
Create ==
    /\ ops < MaxOps
    /\ \E u \in Users, payload \in CreatePayloads :
        /\ create(u, payload)
        /\ last' = [op |-> "create", user |-> u, id |-> nextRecipe,
                    payload |-> payload]
    /\ UNCHANGED <<solo, inflight>>

Update ==
    /\ ops < MaxOps
    /\ \E instance \in recipes, payload \in Payloads :
        /\ update(instance, payload)
        /\ last' = [op |-> "update", user |-> instance.user,
                    id |-> instance.id, payload |-> payload]
    /\ UNCHANGED <<solo, inflight>>

Delete ==
    /\ ops < MaxOps
    /\ \E instance \in recipes :
        /\ delete(instance)
        /\ last' = [op |-> "delete", user |-> instance.user,
                    id |-> instance.id]
    /\ UNCHANGED <<solo, inflight>>

Next == Create \/ Update \/ Delete

Spec == Init /\ [][Next]_vars

\* ------------------------------------------------------------------------
\* Query sets. A filter over a many-to-many relation is a join: one result
\* row per matching link row. Join rows are <<recipe id, tag id, ingredient
\* id>>, with 0 where a relation is not joined.
\* ------------------------------------------------------------------------
Repeat(x, n) == [j \in 1..n |-> x]

\* The keys of the join rows, in the order given, one entry per join row.
RECURSIVE Render(_, _)
Render(rows, order) ==
    IF order = <<>> THEN <<>>
    ELSE Repeat(Head(order), Cardinality({x \in rows : x[1] = Head(order)}))
         \o Render(rows, Tail(order))

\* Variant: the query without .distinct().
distinct_nothing(s) == s

\* QuerySet.distinct(): every row once, first occurrences kept.
RECURSIVE distinct(_)
distinct(s) ==
    IF s = <<>> THEN <<>>
    ELSE LET front == distinct(SubSeq(s, 1, Len(s) - 1))
         IN IF s[Len(s)] \in Range(front) THEN front
            ELSE Append(front, s[Len(s)])

\* order_by('-id') over the primary keys handed out so far.
IdsDescending(next) == [j \in 1..(next - 1) |-> next - j]

\* RecipeViewSet.get_queryset: optional tags / ingredients filters, then the
\* owner filter, newest first, deduplicated.
recipe_queryset(u, tag_ids, ingredient_ids) ==
    LET tagged == IF tag_ids = <<>>
                  THEN {<<r.id, 0>> : r \in recipes}
                  ELSE {l \in recipe_tags : l[2] \in tag_ids[1]}
        joined == IF ingredient_ids = <<>>
                  THEN {<<l[1], l[2], 0>> : l \in tagged}
                  ELSE {<<l[1], l[2], m[2]>> :
                          <<l, m>> \in {p \in tagged \X recipe_ingredients :
                                          /\ p[1][1] = p[2][1]
                                          /\ p[2][2] \in ingredient_ids[1]}}
        owned == {j \in joined : RecipeById(j[1]).user = u}
    IN distinct(Render(owned, IdsDescending(nextRecipe)))

\* order_by('-name'): the ids of the rows, by name in reverse lexical order.
RECURSIVE ByName(_, _)
ByName(rows, names) ==
    IF names = <<>> THEN <<>>
    ELSE ByName({t \in rows : t.name # Head(names)}, Tail(names))
         \o LET same == {t.id : t \in {x \in rows : x.name = Head(names)}}
            IN [j \in 1..Cardinality(same) |->
                  CHOOSE x \in same : Cardinality({y \in same : y < x}) = j - 1]

\* Variant: the assigned_only parameter is ignored.
attr_queryset_all(rows, links, names, u, assigned_only) ==
    ByName({t \in rows : t.user = u}, names)

\* BaseRecipeAttrViewSet.get_queryset on a table with its link table:
\* assigned_only keeps the rows joined to a recipe.
attr_queryset(rows, links, names, u, assigned_only) ==
    LET joined == IF assigned_only
                  THEN {<<l[2], l[1]>> : l \in links}
                  ELSE {<<t.id, 0>> : t \in rows}
        owned == {j \in joined :
                    \E t \in rows : t.id = j[1] /\ t.user = u}
    IN distinct(Render(owned, ByName(rows, names)))

TagNamesAscending == <<"Breakfast", "Lunch">>
IngredientNamesAscending == <<"Pepper", "Salt">>

\* ------------------------------------------------------------------------
\* The list requests.
\* ------------------------------------------------------------------------
IdSets(next) == {s \in SUBSET (1..(next - 1)) : s # {} /\ Cardinality(s) <= MaxIds}

\* The number of ids a list request carries, over both filter parameters.
Ids(tag_ids, ingredient_ids) ==
    (IF tag_ids = <<>> THEN 0 ELSE Cardinality(tag_ids[1]))
    + (IF ingredient_ids = <<>> THEN 0 ELSE Cardinality(ingredient_ids[1]))

ListRecipes ==
    /\ ops < MaxOps
    /\ \E u \in Users, tag_ids \in Opt(IdSets(nextTag)),
          ingredient_ids \in Opt(IdSets(nextIngredient)) :
        /\ Ids(tag_ids, ingredient_ids) <= MaxIds
        /\ last' = [op |-> "list_recipes", user |-> u, tag_ids |-> tag_ids,
                 ingredient_ids |-> ingredient_ids,
                 result |-> recipe_queryset(u, tag_ids, ingredient_ids)]
    /\ ops' = ops + 1
    /\ UNCHANGED store
    /\ UNCHANGED <<solo, inflight>>

ListTags ==
    /\ ops < MaxOps
    /\ \E u \in Users, assigned_only \in BOOLEAN :
        last' = [op |-> "list_tags", user |-> u,
                 assigned_only |-> assigned_only,
                 result |-> attr_queryset(tags, recipe_tags,
                              TagNamesAscending, u, assigned_only)]
    /\ ops' = ops + 1
    /\ UNCHANGED store
    /\ UNCHANGED <<solo, inflight>>

ListIngredients ==
    /\ ops < MaxOps
    /\ \E u \in Users, assigned_only \in BOOLEAN :
        last' = [op |-> "list_ingredients", user |-> u,
                 assigned_only |-> assigned_only,
                 result |-> attr_queryset(ingredients, recipe_ingredients,
                              IngredientNamesAscending, u, assigned_only)]
    /\ ops' = ops + 1
    /\ UNCHANGED store
    /\ UNCHANGED <<solo, inflight>>

\* The write requests again, keeping no record of the payload.
\* Their payloads carry no 'user' key and one title: no query looks at either.
QueryPayloads == {p \in Payloads : p.user = <<>> /\ p.title \in Opt(CreateTitles)}

CreateRecipe ==
    /\ ops < MaxOps
    /\ \E u \in Users, payload \in CreatePayloads \cap QueryPayloads :
        create(u, payload)
    /\ last' = [op |-> "write"]
    /\ UNCHANGED <<solo, inflight>>

UpdateRecipe ==
    /\ ops < MaxOps
    /\ \E instance \in recipes, payload \in QueryPayloads :
        update(instance, payload)
    /\ last' = [op |-> "write"]
    /\ UNCHANGED <<solo, inflight>>

DeleteRecipe ==
    /\ ops < MaxOps
    /\ \E instance \in recipes : delete(instance)
    /\ last' = [op |-> "write"]
    /\ UNCHANGED <<solo, inflight>>

NextQuery ==
    \/ CreateRecipe \/ UpdateRecipe \/ DeleteRecipe
    \/ ListRecipes \/ ListTags \/ ListIngredients

SpecQuery == Init /\ [][NextQuery]_vars
\* ========================================================================
\* Properties.
\* ========================================================================
Linked(links, rid) == {l[2] : l \in {x \in links : x[1] = rid}}
Named(rows, u, names) == {t.id : t \in {x \in rows : x.user = u /\ x.name \in names}}
NamesOf(rows, ids) == {t.name : t \in {x \in rows : x.id \in ids}}
Missing(rows, u, names) == {n \in names : Named(rows, u, {n}) = {}}
IsWrite == last.op \in {"create", "update", "delete"}
Desc(n) == [name |-> n]

\* C1: after an update whose payload carries tags (resp. ingredients) as a
\* sequence S, the recipe is linked to exactly the owner's entities named in S
\* and to one entity for every name of S: a full replacement, and no link at
\* all when S is empty.
C1_UpdateReplacesRelation ==
    last.op = "update" =>
        /\ last.payload.tags # <<>> =>
            LET S == DescNames(last.payload.tags[1]) IN
            /\ TagsOf(last.id) = Named(tags, last.user, S)
            /\ NamesOf(tags, TagsOf(last.id)) = S
            /\ (S = {} => TagsOf(last.id) = {})
        /\ last.payload.ingredients # <<>> =>
            LET S == DescNames(last.payload.ingredients[1]) IN
            /\ IngredientsOf(last.id) = Named(ingredients, last.user, S)
            /\ NamesOf(ingredients, IngredientsOf(last.id)) = S
            /\ (S = {} => IngredientsOf(last.id) = {})

\* A recipe linked to Breakfast and Salt was updated with tags=[Lunch] and
\* ingredients=[]: Breakfast still exists, the recipe has only Lunch and no
\* ingredient.
C1_Witness ==
    /\ last.op = "update"
    /\ last.payload.tags = << <<Desc("Lunch")>> >>
    /\ last.payload.ingredients = << <<>> >>
    /\ Named(tags, last.user, {"Breakfast"}) # {}
    /\ Named(ingredients, last.user, {"Salt"}) # {}
    /\ NamesOf(tags, TagsOf(last.id)) = {"Lunch"}
    /\ IngredientsOf(last.id) = {}

\* C2: an update whose payload lacks a relation field leaves that relation of
\* the recipe as it was.
C2_AbsentRelationUntouched ==
    [][last'.op = "update" =>
        /\ last'.payload.tags = <<>> =>
            Linked(recipe_tags', last'.id) = Linked(recipe_tags, last'.id)
        /\ last'.payload.ingredients = <<>> =>
            Linked(recipe_ingredients', last'.id)
                = Linked(recipe_ingredients, last'.id)]_vars

\* An update carrying only ingredients=[Salt] on a recipe that has a tag: the
\* tag is still linked and Salt is the only ingredient.
C2_Witness ==
    /\ last.op = "update"
    /\ last.payload.tags = <<>>
    /\ last.payload.title = <<>>
    /\ last.payload.ingredients = << <<Desc("Salt")>> >>
    /\ TagsOf(last.id) # {}
    /\ NamesOf(ingredients, IngredientsOf(last.id)) = {"Salt"}
    /\ Cardinality(IngredientsOf(last.id)) = 1

\* C3: a create or update naming N for its owner links the row that already
\* holds (owner, N) when there is one, and adds exactly one row for every
\* name that had none, however often the payload repeats the name; no two
\* rows ever hold the same (owner, name).
C3_ResolveIdempotent ==
    [][last'.op \in {"create", "update"} =>
        /\ last'.payload.tags # <<>> =>
            LET S == DescNames(last'.payload.tags[1]) IN
            /\ Named(tags, last'.user, S) \subseteq Linked(recipe_tags', last'.id)
            /\ Cardinality(tags') =
                 Cardinality(tags) + Cardinality(Missing(tags, last'.user, S))
            /\ \A a, b \in tags' :
                 a.user = b.user /\ a.name = b.name => a.id = b.id
        /\ last'.payload.ingredients # <<>> =>
            LET S == DescNames(last'.payload.ingredients[1]) IN
            /\ Named(ingredients, last'.user, S)
                 \subseteq Linked(recipe_ingredients', last'.id)
            /\ Cardinality(ingredients') =
                 Cardinality(ingredients)
                   + Cardinality(Missing(ingredients, last'.user, S))
            /\ \A a, b \in ingredients' :
                 a.user = b.user /\ a.name = b.name => a.id = b.id]_vars

\* The second recipe was created with tags=[Breakfast, Breakfast] by the
\* owner of the first, which has Breakfast: both recipes are linked to tag 1
\* and it is the only tag ever created.
C3_Witness ==
    /\ last.op = "create"
    /\ last.id = 2
    /\ last.payload.tags = << <<Desc("Breakfast"), Desc("Breakfast")>> >>
    /\ TagsOf(1) = {1}
    /\ TagsOf(2) = {1}
    /\ nextTag = 2

\* C4: when a user creates or updates a recipe with a name that another user
\* already has, the other user's row stays as it is, keeps its links and is
\* not linked to the recipe; the recipe is linked to a different row, owned
\* by its owner, which is a new row when the owner had none of that name.
C4_NamesArePerUser ==
    [][last'.op \in {"create", "update"} =>
        /\ last'.payload.tags # <<>> =>
            \A t \in tags :
                (t.user # last'.user
                 /\ t.name \in DescNames(last'.payload.tags[1])) =>
                    /\ t \in tags'
                    /\ t.id \notin Linked(recipe_tags', last'.id)
                    /\ {l \in recipe_tags' : l[2] = t.id}
                         = {l \in recipe_tags : l[2] = t.id}
                    /\ \E n \in tags' :
                        /\ n.user = last'.user /\ n.name = t.name
                        /\ n.id # t.id
                        /\ n.id \in Linked(recipe_tags', last'.id)
                        /\ (Named(tags, last'.user, {t.name}) = {}
                              => n \notin tags)
        /\ last'.payload.ingredients # <<>> =>
            \A t \in ingredients :
                (t.user # last'.user
                 /\ t.name \in DescNames(last'.payload.ingredients[1])) =>
                    /\ t \in ingredients'
                    /\ t.id \notin Linked(recipe_ingredients', last'.id)
                    /\ {l \in recipe_ingredients' : l[2] = t.id}
                         = {l \in recipe_ingredients : l[2] = t.id}
                    /\ \E n \in ingredients' :
                        /\ n.user = last'.user /\ n.name = t.name
                        /\ n.id # t.id
                        /\ n.id \in Linked(recipe_ingredients', last'.id)
                        /\ (Named(ingredients, last'.user, {t.name}) = {}
                              => n \notin ingredients)]_vars

\* u1 has tag 1 "Lunch" on recipe 1; u2 created recipe 2 with tags=[Lunch] and
\* got tag 2.
C4_Witness ==
    /\ last.op = "create"
    /\ last.user = "u2"
    /\ last.payload.tags = << <<Desc("Lunch")>> >>
    /\ [id |-> 1, user |-> "u1", name |-> "Lunch"] \in tags
    /\ [id |-> 2, user |-> "u2", name |-> "Lunch"] \in tags
    /\ recipe_tags = {<<1, 1>>, <<2, 2>>}

\* C5: every link row joins a recipe with a tag (resp. ingredient) of the
\* recipe's owner.
C5_LinksStayWithinOwner ==
    /\ \A l \in recipe_tags :
        \E r \in recipes, t \in tags :
            r.id = l[1] /\ t.id = l[2] /\ t.user = r.user
    /\ \A l \in recipe_ingredients :
        \E r \in recipes, t \in ingredients :
            r.id = l[1] /\ t.id = l[2] /\ t.user = r.user

\* Two users each have a recipe with an ingredient named Salt.
C5_Witness ==
    /\ IsWrite
    /\ \E r1, r2 \in recipes :
        /\ r1.user = "u1" /\ r2.user = "u2"
        /\ NamesOf(ingredients, IngredientsOf(r1.id)) = {"Salt"}
        /\ NamesOf(ingredients, IngredientsOf(r2.id)) = {"Salt"}
        /\ NamesOf(tags, TagsOf(r2.id)) = {"Breakfast", "Lunch"}

\* C6: an update leaves the recipe's owner as it was, whatever the payload
\* carries, and the title of the payload, when present, is the recipe's title
\* afterwards.
C6_UpdateKeepsOwner ==
    [][last'.op = "update" =>
        \A r \in recipes : r.id = last'.id =>
            \E n \in recipes' :
                /\ n.id = r.id
                /\ n.user = r.user
                /\ (last'.payload.title # <<>>
                      => n.title = last'.payload.title[1])
                /\ \A m \in recipes' : m.id = r.id => m = n]_vars

\* u1's recipe was updated with user=u2 and title=Toast: it is still u1's and
\* is now titled Toast.
C6_Witness ==
    /\ last.op = "update"
    /\ last.payload.user = <<"u2">>
    /\ last.payload.title = <<"Toast">>
    /\ \E r \in recipes :
        r.id = last.id /\ r.user = "u1" /\ r.title = "Toast"
    /\ ops = MaxOps

\* C7: a create adds exactly one recipe, owned by the requesting user; it is
\* linked to exactly the owner's entities named by the descriptors, the rows
\* that existed are reused and one row is added for every missing name; with
\* the descriptor list omitted the recipe has no link of that relation.
C7_CreateLinksResolved ==
    [][last'.op = "create" =>
        LET T == IF last'.payload.tags = <<>> THEN {}
                 ELSE DescNames(last'.payload.tags[1])
            I == IF last'.payload.ingredients = <<>> THEN {}
                 ELSE DescNames(last'.payload.ingredients[1])
        IN /\ \E n \in recipes' :
                /\ n \notin recipes
                /\ recipes' = recipes \cup {n}
                /\ n.id = last'.id
                /\ n.id \notin {r.id : r \in recipes}
                /\ n.user = last'.user
           /\ Linked(recipe_tags', last'.id) = Named(tags', last'.user, T)
           /\ NamesOf(tags', Linked(recipe_tags', last'.id)) = T
           /\ tags \subseteq tags'
           /\ NamesOf(tags' \ tags, {t.id : t \in tags' \ tags})
                = Missing(tags, last'.user, T)
           /\ Cardinality(tags' \ tags)
                = Cardinality(Missing(tags, last'.user, T))
           /\ \A t \in tags' \ tags : t.user = last'.user
           /\ Linked(recipe_ingredients', last'.id)
                = Named(ingredients', last'.user, I)
           /\ NamesOf(ingredients', Linked(recipe_ingredients', last'.id)) = I
           /\ ingredients \subseteq ingredients'
           /\ NamesOf(ingredients' \ ingredients,
                      {t.id : t \in ingredients' \ ingredients})
                = Missing(ingredients, last'.user, I)
           /\ Cardinality(ingredients' \ ingredients)
                = Cardinality(Missing(ingredients, last'.user, I))
           /\ \A t \in ingredients' \ ingredients : t.user = last'.user]_vars

\* Recipe 2 was created with ingredients=[Salt, Pepper] and no tags key by
\* the owner of recipe 1, which has Salt: Salt is reused, Pepper is new, and
\* recipe 2 has no tag.
C7_Witness ==
    /\ last.op = "create"
    /\ last.id = 2
    /\ last.payload.tags = <<>>
    /\ last.payload.ingredients = << <<Desc("Salt"), Desc("Pepper")>> >>
    /\ IngredientsOf(1) = {1}
    /\ IngredientsOf(2) = {1, 2}
    /\ NamesOf(ingredients, {1}) = {"Salt"}
    /\ TagsOf(1) # {}
    /\ TagsOf(2) = {}

\* C8: a recipe list holds exactly the recipes of the requesting user that
\* have a tag among tag_ids when tag_ids is given and an ingredient among
\* ingredient_ids when ingredient_ids is given, each of them once.
C8_RecipeListFilter ==
    last.op = "list_recipes" =>
        LET expected ==
              {r.id : r \in {x \in recipes :
                  /\ x.user = last.user
                  /\ (last.tag_ids = <<>>
                        \/ TagsOf(x.id) \cap last.tag_ids[1] # {})
                  /\ (last.ingredient_ids = <<>>
                        \/ IngredientsOf(x.id) \cap last.ingredient_ids[1] # {})}}
        IN /\ Range(last.result) = expected
           /\ Len(last.result) = Cardinality(expected)

\* A list by two tag ids: recipe 1 has both and is listed once, recipe 2 of
\* the same user has neither and is left out.
C8_Witness ==
    /\ last.op = "list_recipes"
    /\ last.tag_ids = <<{1, 2}>>
    /\ last.ingredient_ids = <<>>
    /\ TagsOf(1) = {1, 2}
    /\ TagsOf(2) = {}
    /\ \A r \in recipes : r.user = last.user
    /\ {r.id : r \in recipes} = {1, 2}
    /\ last.result = <<1>>

\* C9: a tag (resp. ingredient) list holds only rows of the requesting user,
\* each once: all of them, or with assigned_only exactly those linked to at
\* least one recipe.
C9_AttrListFilter ==
    /\ last.op = "list_tags" =>
        LET expected ==
              {t.id : t \in {x \in tags :
                  /\ x.user = last.user
                  /\ (last.assigned_only
                        => \E l \in recipe_tags : l[2] = x.id)}}
        IN /\ Range(last.result) = expected
           /\ Len(last.result) = Cardinality(expected)
    /\ last.op = "list_ingredients" =>
        LET expected ==
              {t.id : t \in {x \in ingredients :
                  /\ x.user = last.user
                  /\ (last.assigned_only
                        => \E l \in recipe_ingredients : l[2] = x.id)}}
        IN /\ Range(last.result) = expected
           /\ Len(last.result) = Cardinality(expected)

\* An assigned_only tag list of a user whose tag 1 is on two recipes and whose
\* tag 2 is on one: both are listed once.
C9_Witness ==
    /\ last.op = "list_tags"
    /\ last.assigned_only
    /\ TagsOf(1) = {1, 2}
    /\ TagsOf(2) = {1}
    /\ Len(last.result) = 2
    /\ Range(last.result) = {1, 2}

\* C10: no write request of the recipe endpoints removes a Tag or Ingredient
\* row; a delete removes the recipe and every link row of it, and no other
\* link row.
C10_EntitiesOutliveLinks ==
    [][last'.op \in {"create", "update", "delete"} =>
        /\ tags \subseteq tags'
        /\ ingredients \subseteq ingredients'
        /\ last'.op = "delete" =>
            /\ last'.id \notin {r.id : r \in recipes'}
            /\ recipe_tags' = {l \in recipe_tags : l[1] # last'.id}
            /\ recipe_ingredients'
                 = {l \in recipe_ingredients : l[1] # last'.id}
            /\ Linked(recipe_tags', last'.id) = {}
            /\ Linked(recipe_ingredients', last'.id) = {}]_vars

\* Recipe 1, which had tags 1 and 2, was deleted: both rows are still there,
\* tag 2 linked to nothing and tag 1 still linked to recipe 2.
C10_Witness ==
    /\ last.op = "delete"
    /\ last.id = 1
    /\ {r.id : r \in recipes} = {2}
    /\ {t.id : t \in tags} = {1, 2}
    /\ recipe_tags = {<<2, 1>>}

\* ========================================================================
\* The detail endpoints, addressed by any user with any recipe id.
\* ========================================================================
\* Payloads of the detail endpoints: no 'user' key, one title, tags only.
DetailPayloads == {p \in QueryPayloads : p.ingredients = <<>>}

\* Variant: the detail view looks the id up among all recipes.
get_object_any_owner(u, rid) == {r \in recipes : r.id = rid}

\* get_object() over the view's queryset, which holds the recipes of the
\* authenticated user: the recipe with this id, or none (Http404).
get_object(u, rid) == {r \in recipes : r.user = u /\ r.id = rid}

\* The response to a request whose recipe is not in the queryset.
NotFound == [status |-> 404]

\* A request that ends in Http404 before any serializer or store call.
Http404(u, rid, op) ==
    /\ UNCHANGED store
    /\ ops' = ops + 1
    /\ last' = [op |-> op, user |-> u, id |-> rid, response |-> NotFound]

\* Every id handed out so far and the one not handed out yet.
RecipeIds == 1..nextRecipe

\* Whether update(instance, payload) ends in an exception of get_or_create
\* (MultipleObjectsReturned), which the view does not catch.
update_raises(instance, payload) ==
    LET validated_data == to_internal_value(payload) IN
    \/ ~update_tags(instance, validated_data.tags).ok
    \/ ~update_ingredients(instance, validated_data.ingredients).ok

PostRecipe ==
    /\ ops < MaxOps
    /\ \E u \in Users, payload \in CreatePayloads \cap DetailPayloads :
        /\ create(u, payload)
        /\ last' = [op |-> "post", user |-> u, id |-> nextRecipe,
                    response |-> [status |-> 201]]
    /\ UNCHANGED <<solo, inflight>>

RetrieveRecipe ==
    /\ ops < MaxOps
    /\ \E u \in Users, rid \in RecipeIds :
        IF get_object(u, rid) = {}
        THEN Http404(u, rid, "retrieve")
        ELSE /\ UNCHANGED store
             /\ ops' = ops + 1
             /\ last' = [op |-> "retrieve", user |-> u, id |-> rid,
                         response |-> [status |-> 200]]
    /\ UNCHANGED <<solo, inflight>>

PatchRecipe ==
    /\ ops < MaxOps
    /\ \E u \in Users, rid \in RecipeIds, payload \in DetailPayloads :
        IF get_object(u, rid) = {}
        THEN Http404(u, rid, "patch")
        ELSE \E instance \in get_object(u, rid) :
                /\ update(instance, payload)
                /\ last' = [op |-> "patch", user |-> u, id |-> rid,
                            payload |-> payload,
                            response |->
                              [status |-> IF update_raises(instance, payload)
                                          THEN 500 ELSE 200]]
    /\ UNCHANGED <<solo, inflight>>

DestroyRecipe ==
    /\ ops < MaxOps
    /\ \E u \in Users, rid \in RecipeIds :
        IF get_object(u, rid) = {}
        THEN Http404(u, rid, "destroy")
        ELSE /\ \E instance \in get_object(u, rid) : delete(instance)
             /\ last' = [op |-> "destroy", user |-> u, id |-> rid,
                         response |-> [status |-> 204]]
    /\ UNCHANGED <<solo, inflight>>

NextDetail == PostRecipe \/ RetrieveRecipe \/ PatchRecipe \/ DestroyRecipe

SpecDetail == Init /\ [][NextDetail]_vars

\* C11: a retrieve, patch or destroy by a user of a recipe id that does not
\* exist or belongs to another user is answered with the one NotFound
\* response, whichever of the two it is, and changes no table; an id of the
\* user's own recipe is never answered with it.
C11_NotFoundLeavesStore ==
    [][last'.op \in {"retrieve", "patch", "destroy"} =>
        LET own == \E r \in recipes :
                      r.id = last'.id /\ r.user = last'.user
        IN /\ ~own => /\ last'.response = NotFound
                      /\ store' = store
           /\ own => last'.response # NotFound]_vars

\* u1 asked to destroy recipe 1 of u2: NotFound, and recipe 1 with its tag
\* link is still there.
C11_Witness ==
    /\ last.op = "destroy"
    /\ last.user = "u1"
    /\ last.id = 1
    /\ last.response = NotFound
    /\ \E r \in recipes : r.id = 1 /\ r.user = "u2"
    /\ TagsOf(1) # {}

\* ========================================================================
\* The tag detail endpoints next to the recipe endpoints.
\* ========================================================================
\* TagSerializer has the one writable field 'name' and no validator of its
\* own: ModelSerializer.update assigns the name and saves the row.
tag_update(instance, name) ==
    /\ tags' = (tags \ {instance}) \cup {[instance EXCEPT !.name = name]}
    /\ UNCHANGED <<recipes, ingredients, recipe_tags, recipe_ingredients,
                   nextRecipe, nextTag, nextIngredient>>
    /\ ops' = ops + 1

\* DELETE /tags/<id>/: the Tag row goes, and the link rows that point to it.
tag_delete(instance) ==
    /\ tags' = tags \ {instance}
    /\ recipe_tags' = {l \in recipe_tags : l[2] # instance.id}
    /\ UNCHANGED <<recipes, ingredients, recipe_ingredients,
                   nextRecipe, nextTag, nextIngredient>>
    /\ ops' = ops + 1

PatchTag ==
    /\ ops < MaxOps
    /\ \E instance \in tags, name \in TagNames :
        /\ tag_update(instance, name)
        /\ last' = [op |-> "patch_tag", user |-> instance.user,
                    id |-> instance.id, payload |-> [name |-> name],
                    response |-> [status |-> 200]]
    /\ UNCHANGED <<solo, inflight>>

DestroyTag ==
    /\ ops < MaxOps
    /\ \E instance \in tags :
        /\ tag_delete(instance)
        /\ last' = [op |-> "destroy_tag", user |-> instance.user,
                    id |-> instance.id, response |-> [status |-> 204]]
    /\ UNCHANGED <<solo, inflight>>

NextTags == PostRecipe \/ PatchRecipe \/ PatchTag \/ DestroyTag

SpecTags == Init /\ [][NextTags]_vars

\* C12: a recipe update that ends in an exception leaves every table as it
\* was before the request: the recipe's links and fields, and the Tag and
\* Ingredient rows.
C12_UpdateAllOrNothing ==
    [][(last'.op = "patch" /\ last'.response.status = 500) =>
        /\ recipes' = recipes
        /\ recipe_tags' = recipe_tags
        /\ recipe_ingredients' = recipe_ingredients
        /\ tags' = tags
        /\ ingredients' = ingredients]_vars

\* C15: no two Tag rows of one owner have the same name, and no two
\* Ingredient rows of one owner have the same name.
C15_NamesUniquePerOwner ==
    /\ \A a, b \in tags : (a.user = b.user /\ a.name = b.name) => a = b
    /\ \A a, b \in ingredients :
        (a.user = b.user /\ a.name = b.name) => a = b

\* ========================================================================
\* Two runs side by side: the tables serve the requests of every user, and
\* solo serves the requests of Observer alone, in the same order.
\* ========================================================================
Observer == "u1"

\* The serializer and the query sets once more, on tables handed over as a
\* record s instead of the tables of the first run.
create_on(s, u, payload) ==
    LET validated_data == to_internal_value(payload)
        recipe == new_recipe(s.nextRecipe, u, validated_data)
        result(t, i) ==
            [recipes |-> s.recipes \cup {recipe},
             nextRecipe |-> s.nextRecipe + 1,
             tags |-> t.rows, nextTag |-> t.next, recipe_tags |-> t.links,
             ingredients |-> i.rows, nextIngredient |-> i.next,
             recipe_ingredients |-> i.links]
        then(t) ==
            result(t,
                IF t.ok
                THEN get_or_create_ingredients(
                        pop(validated_data, "ingredients", <<>>), recipe,
                        [rows |-> s.ingredients, next |-> s.nextIngredient,
                         links |-> s.recipe_ingredients, ok |-> TRUE])
                ELSE [rows |-> s.ingredients, next |-> s.nextIngredient,
                      links |-> s.recipe_ingredients, ok |-> FALSE])
    IN then(get_or_create_tags(pop(validated_data, "tags", <<>>), recipe,
                [rows |-> s.tags, next |-> s.nextTag,
                 links |-> s.recipe_tags, ok |-> TRUE]))

update_on(s, instance, payload) ==
    LET validated_data == to_internal_value(payload)
        result(t, i) ==
            [recipes |->
                IF i.ok
                THEN (s.recipes \ {instance}) \cup
                     {save(instance, [validated_data EXCEPT
                                        !.tags = None, !.ingredients = None])}
                ELSE s.recipes,
             nextRecipe |-> s.nextRecipe,
             tags |-> t.rows, nextTag |-> t.next, recipe_tags |-> t.links,
             ingredients |-> i.rows, nextIngredient |-> i.next,
             recipe_ingredients |-> i.links]
        then(t) ==
            result(t,
                IF t.ok /\ validated_data.ingredients # None
                THEN get_or_create_ingredients(
                        validated_data.ingredients[1], instance,
                        [rows |-> s.ingredients, next |-> s.nextIngredient,
                         links |-> clear(s.recipe_ingredients, instance),
                         ok |-> TRUE])
                ELSE [rows |-> s.ingredients, next |-> s.nextIngredient,
                      links |-> s.recipe_ingredients, ok |-> t.ok])
    IN then(IF validated_data.tags # None
            THEN get_or_create_tags(validated_data.tags[1], instance,
                    [rows |-> s.tags, next |-> s.nextTag,
                     links |-> clear(s.recipe_tags, instance), ok |-> TRUE])
            ELSE [rows |-> s.tags, next |-> s.nextTag,
                  links |-> s.recipe_tags, ok |-> TRUE])

delete_on(s, instance) ==
    [s EXCEPT !.recipes = s.recipes \ {instance},
              !.recipe_tags = clear(s.recipe_tags, instance),
              !.recipe_ingredients = clear(s.recipe_ingredients, instance)]

get_object_on(s, u, rid) == {r \in s.recipes : r.user = u /\ r.id = rid}

recipe_queryset_on(s, u, tag_ids, ingredient_ids) ==
    LET tagged == IF tag_ids = <<>>
                  THEN {<<r.id, 0>> : r \in s.recipes}
                  ELSE {l \in s.recipe_tags : l[2] \in tag_ids[1]}
        joined == IF ingredient_ids = <<>>
                  THEN {<<l[1], l[2], 0>> : l \in tagged}
                  ELSE {<<l[1], l[2], m[2]>> :
                          <<l, m>> \in {p \in tagged \X s.recipe_ingredients :
                                          /\ p[1][1] = p[2][1]
                                          /\ p[2][2] \in ingredient_ids[1]}}
        owned == {j \in joined :
                    \E r \in s.recipes : r.id = j[1] /\ r.user = u}
    IN distinct(Render(owned, IdsDescending(s.nextRecipe)))

\* The tables of the first run as a record.
Tables ==
    [recipes |-> recipes, tags |-> tags, ingredients |-> ingredients,
     recipe_tags |-> recipe_tags, recipe_ingredients |-> recipe_ingredients,
     nextRecipe |-> nextRecipe, nextTag |-> nextTag,
     nextIngredient |-> nextIngredient]

\* The rows and link rows a user owns.
OwnIds(rows, u) == {r.id : r \in {x \in rows : x.user = u}}

View(s, u) ==
    [recipes |-> {r \in s.recipes : r.user = u},
     tags |-> {t \in s.tags : t.user = u},
     ingredients |-> {t \in s.ingredients : t.user = u},
     recipe_tags |-> {l \in s.recipe_tags : l[1] \in OwnIds(s.recipes, u)},
     recipe_ingredients |->
        {l \in s.recipe_ingredients : l[1] \in OwnIds(s.recipes, u)}]

\* Primary keys are handed out in increasing order, so the k-th smallest id
\* a user owns in one run is the row with the k-th smallest id it owns in
\* the other. Rank is 0 for an id the user does not own.
Rank(ids, x) == IF x \in ids THEN Cardinality({y \in ids : y <= x}) ELSE 0

Twin(ids, others, x) ==
    IF \E y \in others : Rank(others, y) = Rank(ids, x)
    THEN CHOOSE y \in others : Rank(others, y) = Rank(ids, x)
    ELSE 0

\* A view with every primary key replaced by its rank.
Ranked(v) ==
    LET R == {r.id : r \in v.recipes}
        T == {t.id : t \in v.tags}
        I == {t.id : t \in v.ingredients}
    IN [recipes |-> {[r EXCEPT !.id = Rank(R, r.id)] : r \in v.recipes},
        tags |-> {[t EXCEPT !.id = Rank(T, t.id)] : t \in v.tags},
        ingredients |->
            {[t EXCEPT !.id = Rank(I, t.id)] : t \in v.ingredients},
        recipe_tags |->
            {<<Rank(R, l[1]), Rank(T, l[2])>> : l \in v.recipe_tags},
        recipe_ingredients |->
            {<<Rank(R, l[1]), Rank(I, l[2])>> : l \in v.recipe_ingredients}]

RankedSeq(ids, result) == [j \in DOMAIN result |-> Rank(ids, result[j])]

\* What a request of user u turns solo into: s for a request of Observer,
\* nothing new for a request of anybody else.
Solo(u, s) == solo' = IF u = Observer THEN s ELSE solo

\* The id under which solo holds Observer's recipe rid (0: no such recipe).
SoloRecipe(rid) ==
    Twin(OwnIds(recipes, Observer), OwnIds(solo.recipes, Observer), rid)

SoloTags(tag_ids) ==
    IF tag_ids = <<>> THEN <<>>
    ELSE << {Twin(OwnIds(tags, Observer), OwnIds(solo.tags, Observer), x) :
               x \in tag_ids[1]} >>

SoloIngredients(ingredient_ids) ==
    IF ingredient_ids = <<>> THEN <<>>
    ELSE << {Twin(OwnIds(ingredients, Observer),
                  OwnIds(solo.ingredients, Observer), x) :
               x \in ingredient_ids[1]} >>

IsoPost ==
    /\ ops < MaxOps
    /\ \E u \in Users, payload \in CreatePayloads \cap QueryPayloads :
        /\ create(u, payload)
        /\ Solo(u, create_on(solo, u, payload))
        /\ last' = [op |-> "post", user |-> u]
    /\ UNCHANGED inflight

\* The request of Observer served by solo: the same operation on the twin
\* recipe, or nothing when solo holds no twin (Http404).
solo_patch(rid, payload) ==
    LET found == get_object_on(solo, Observer, SoloRecipe(rid))
    IN IF found = {} THEN solo
       ELSE update_on(solo, CHOOSE r \in found : TRUE, payload)

solo_destroy(rid) ==
    LET found == get_object_on(solo, Observer, SoloRecipe(rid))
    IN IF found = {} THEN solo
       ELSE delete_on(solo, CHOOSE r \in found : TRUE)

IsoPatch ==
    /\ ops < MaxOps
    /\ \E u \in Users, rid \in RecipeIds, payload \in QueryPayloads :
        IF get_object(u, rid) = {}
        THEN /\ Http404(u, rid, "patch")
             /\ Solo(u, solo_patch(rid, payload))
        ELSE \E instance \in get_object(u, rid) :
                /\ update(instance, payload)
                /\ Solo(u, solo_patch(rid, payload))
                /\ last' = [op |-> "patch", user |-> u]
    /\ UNCHANGED inflight

IsoDestroy ==
    /\ ops < MaxOps
    /\ \E u \in Users, rid \in RecipeIds :
        IF get_object(u, rid) = {}
        THEN /\ Http404(u, rid, "destroy")
             /\ Solo(u, solo_destroy(rid))
        ELSE \E instance \in get_object(u, rid) :
                /\ delete(instance)
                /\ Solo(u, solo_destroy(rid))
                /\ last' = [op |-> "destroy", user |-> u]
    /\ UNCHANGED inflight

\* A list request leaves both runs as they are; the response of each run is
\* recorded. The ids of the filter are any tag ids of the first run.
IsoListRecipes ==
    /\ ops < MaxOps
    /\ \E u \in Users, tag_ids \in Opt(IdSets(nextTag)),
          ingredient_ids \in Opt(IdSets(nextIngredient)) :
        /\ Ids(tag_ids, ingredient_ids) <= MaxIds
        /\ last' = [op |-> "list_recipes", user |-> u, tag_ids |-> tag_ids,
                    ingredient_ids |-> ingredient_ids,
                    result |-> recipe_queryset(u, tag_ids, ingredient_ids),
                    solo_result |->
                       recipe_queryset_on(solo, u, SoloTags(tag_ids),
                                          SoloIngredients(ingredient_ids))]
    /\ ops' = ops + 1
    /\ UNCHANGED <<store, solo, inflight>>

IsoListTags ==
    /\ ops < MaxOps
    /\ \E u \in Users, assigned_only \in BOOLEAN :
        last' = [op |-> "list_tags", user |-> u,
                 assigned_only |-> assigned_only,
                 result |-> attr_queryset(tags, recipe_tags,
                              TagNamesAscending, u, assigned_only),
                 solo_result |-> attr_queryset(solo.tags, solo.recipe_tags,
                              TagNamesAscending, u, assigned_only)]
    /\ ops' = ops + 1
    /\ UNCHANGED <<store, solo, inflight>>

IsoListIngredients ==
    /\ ops < MaxOps
    /\ \E u \in Users, assigned_only \in BOOLEAN :
        last' = [op |-> "list_ingredients", user |-> u,
                 assigned_only |-> assigned_only,
                 result |-> attr_queryset(ingredients, recipe_ingredients,
                              IngredientNamesAscending, u, assigned_only),
                 solo_result |-> attr_queryset(solo.ingredients,
                              solo.recipe_ingredients,
                              IngredientNamesAscending, u, assigned_only)]
    /\ ops' = ops + 1
    /\ UNCHANGED <<store, solo, inflight>>

NextIsolation ==
    \/ IsoPost \/ IsoPatch \/ IsoDestroy
    \/ IsoListRecipes \/ IsoListTags \/ IsoListIngredients

SpecIsolation == Init /\ [][NextIsolation]_vars

\* C13 as stated: Observer's recipes, tags, ingredients and links, and the
\* results of Observer's list requests, are the same in the run that serves
\* every user as in the run that serves Observer alone.
C13_UsersNeverInteract ==
    /\ View(Tables, Observer) = View(solo, Observer)
    /\ (last.op \in {"list_recipes", "list_tags", "list_ingredients"}
          /\ last.user = Observer)
         => last.result = last.solo_result

\* C13, amended: they are the same up to the values of the primary keys:
\* with every id replaced by its rank among the ids Observer owns, the rows,
\* the links and the list results of the two runs are equal, and no row of
\* another user is in a list result.
C13_UsersInteractOnlyThroughIds ==
    /\ Ranked(View(Tables, Observer)) = Ranked(View(solo, Observer))
    /\ (last.op = "list_recipes" /\ last.user = Observer) =>
        /\ RankedSeq(OwnIds(recipes, Observer), last.result)
             = RankedSeq(OwnIds(solo.recipes, Observer), last.solo_result)
        /\ Range(last.result) \subseteq OwnIds(recipes, Observer)
    /\ (last.op = "list_tags" /\ last.user = Observer) =>
        /\ RankedSeq(OwnIds(tags, Observer), last.result)
             = RankedSeq(OwnIds(solo.tags, Observer), last.solo_result)
        /\ Range(last.result) \subseteq OwnIds(tags, Observer)
    /\ (last.op = "list_ingredients" /\ last.user = Observer) =>
        /\ RankedSeq(OwnIds(ingredients, Observer), last.result)
             = RankedSeq(OwnIds(solo.ingredients, Observer),
                         last.solo_result)
        /\ Range(last.result) \subseteq OwnIds(ingredients, Observer)

\* The other user created recipe 1 with tag Lunch, Observer then created its
\* recipe with tag Lunch and listed its recipes by that tag: recipe 2 with
\* tag 2 in the first run, recipe 1 with tag 1 in the run of its own.
C13_Witness ==
    /\ last.op = "list_recipes"
    /\ last.user = Observer
    /\ last.tag_ids = <<{1, 2}>>
    /\ last.ingredient_ids = <<>>
    /\ last.result = <<2>>
    /\ last.solo_result = <<1>>
    /\ [id |-> 1, user |-> "u2", name |-> "Lunch"] \in tags
    /\ [id |-> 2, user |-> Observer, name |-> "Lunch"] \in tags
    /\ solo.tags = {[id |-> 1, user |-> Observer, name |-> "Lunch"]}
    /\ recipe_tags = {<<1, 1>>, <<2, 2>>}

\* ========================================================================
\* POST /recipes/ served step by step: every statement the serializer sends
\* to the database is a step, and the steps of the requests in flight
\* interleave. get_or_create is a SELECT followed, when no row matched, by
\* an INSERT.
\* ========================================================================
MaxInflight == 2    \* requests in flight

Handles == 1..MaxInflight

\* Where the loop of _get_or_create_tags stands with the descriptors left.
loop(descs) == IF descs = <<>> THEN "done" ELSE "get"

\* create, lines 75-77: the relation fields are popped and the recipe row is
\* inserted.
Begin(h) ==
    /\ ops < MaxOps
    /\ h \notin DOMAIN inflight
    /\ \E u \in Users, payload \in CreatePayloads \cap DetailPayloads :
        LET validated_data == to_internal_value(payload)
            recipe == new_recipe(nextRecipe, u, validated_data)
        IN /\ recipes' = recipes \cup {recipe}
           /\ nextRecipe' = nextRecipe + 1
           /\ inflight' = inflight @@
                (h :> [instance |-> recipe,
                       names |-> DescNames(pop(validated_data, "tags", <<>>)),
                       tags |-> pop(validated_data, "tags", <<>>),
                       pc |-> loop(pop(validated_data, "tags", <<>>)),
                       tag_obj |-> 0])
    /\ ops' = ops + 1
    /\ last' = [op |-> "post", handle |-> h]
    /\ UNCHANGED <<tags, ingredients, recipe_tags, recipe_ingredients,
                   nextTag, nextIngredient, solo>>

\* get_or_create, first half: self.get(user=..., name=...).
Get(h) ==
    /\ h \in DOMAIN inflight
    /\ inflight[h].pc = "get"
    /\ LET m == Matching(tags, inflight[h].instance.user,
                         Head(inflight[h].tags).name)
       IN inflight' = [inflight EXCEPT ![h] =
            IF m = {} THEN [@ EXCEPT !.pc = "create"]
            ELSE IF Cardinality(m) = 1
            THEN [@ EXCEPT !.pc = "add",
                           !.tag_obj = (CHOOSE t \in m : TRUE).id]
            ELSE [@ EXCEPT !.pc = "failed"]]
    /\ last' = [op |-> "get", handle |-> h]
    /\ UNCHANGED <<store, ops, solo>>

\* get_or_create, second half: self.create(user=..., name=...). No
\* constraint of the Tag table is to be seen in the code, so the INSERT
\* takes the row whatever rows there are.
Insert(h) ==
    /\ h \in DOMAIN inflight
    /\ inflight[h].pc = "create"
    /\ tags' = tags \cup {[id |-> nextTag,
                           user |-> inflight[h].instance.user,
                           name |-> Head(inflight[h].tags).name]}
    /\ nextTag' = nextTag + 1
    /\ inflight' = [inflight EXCEPT ![h].pc = "add", ![h].tag_obj = nextTag]
    /\ last' = [op |-> "insert", handle |-> h]
    /\ UNCHANGED <<recipes, ingredients, recipe_tags, recipe_ingredients,
                   nextRecipe, nextIngredient, ops, solo>>

\* instance.tags.add(tag_obj), and on to the next descriptor.
Add(h) ==
    /\ h \in DOMAIN inflight
    /\ inflight[h].pc = "add"
    /\ recipe_tags' = add(recipe_tags, inflight[h].instance,
                          inflight[h].tag_obj)
    /\ inflight' = [inflight EXCEPT
                      ![h].tags = Tail(@),
                      ![h].pc = loop(Tail(inflight[h].tags))]
    /\ last' = [op |-> "add", handle |-> h]
    /\ UNCHANGED <<recipes, tags, ingredients, recipe_ingredients,
                   nextRecipe, nextTag, nextIngredient, ops, solo>>

NextRace == \E h \in Handles : Begin(h) \/ Get(h) \/ Insert(h) \/ Add(h)

SpecRace == Init /\ [][NextRace]_vars

\* C14: once two requests of one user that name the same N are through,
\* neither has failed, one Tag row holds (user, N), and the recipes of both
\* requests are linked to it.
C14_ConcurrentResolveOneRow ==
    \A g, h \in DOMAIN inflight :
        (/\ g # h
         /\ inflight[g].pc \in {"done", "failed"}
         /\ inflight[h].pc \in {"done", "failed"}
         /\ inflight[g].instance.user = inflight[h].instance.user) =>
            \A n \in inflight[g].names \cap inflight[h].names :
                LET m == Matching(tags, inflight[g].instance.user, n)
                IN /\ inflight[g].pc = "done"
                   /\ inflight[h].pc = "done"
                   /\ Cardinality(m) = 1
                   /\ \A t \in m :
                        /\ t.id \in TagsOf(inflight[g].instance.id)
                        /\ t.id \in TagsOf(inflight[h].instance.id)

\* ========================================================================
\* Recipes with a price: create and update handed a payload with a price.
\* ========================================================================
\* Prices in whole currency units; one of them is negative.
Prices == {-1, 0, 5}

\* Payloads with the scalar fields title and price and no relation field.
PricePayloads ==
    [title : Opt(Titles), price : Opt(Prices), tags : {<<>>},
     ingredients : {<<>>}]

\* POST: title and price are required fields.
CreatePricePayloads ==
    {p \in PricePayloads : p.title = <<"Curry">> /\ p.price # <<>>}

\* The response of a request the serializer completes: nothing in create or
\* update looks at the price.
Completed(status) == [status |-> status]

PostPriced ==
    /\ ops < MaxOps
    /\ \E u \in Users, payload \in CreatePricePayloads :
        /\ create(u, payload)
        /\ last' = [op |-> "post", user |-> u, id |-> nextRecipe,
                    payload |-> payload, response |-> Completed(201)]
    /\ UNCHANGED <<solo, inflight>>

PatchPriced ==
    /\ ops < MaxOps
    /\ \E instance \in recipes, payload \in PricePayloads :
        /\ update(instance, payload)
        /\ last' = [op |-> "patch", user |-> instance.user,
                    id |-> instance.id, payload |-> payload,
                    response |-> Completed(200)]
    /\ UNCHANGED <<solo, inflight>>

NextPrice == PostPriced \/ PatchPriced

SpecPrice == Init /\ [][NextPrice]_vars

\* C16: no recipe has a negative price, and a create or update handed a
\* negative price is answered with a validation failure (400).
C16_NegativePriceRejected ==
    /\ \A r \in recipes : r.price >= 0
    /\ (last.op \in {"post", "patch"} /\ last.payload.price # <<>>
          /\ last.payload.price[1] < 0) => last.response.status = 400
====
